---- MODULE Spec2Model ----
(***************************************************************************)
(* Item inventory service (item_app): the create / update / delete / list  *)
(* request handlers of main.py, the per-request session of database.py     *)
(* and the items table of models.py.                                       *)
(*                                                                         *)
(* A request is handled in steps: the framework resolves get_db and binds  *)
(* the declared parameters, the handler body runs up to each statement     *)
(* that talks to the database (query, commit, refresh), and get_db's       *)
(* finally block closes the session.  Each database statement may raise a  *)
(* SQLAlchemyError (a store fault).                                        *)
(*                                                                         *)
(*   Spec      one request at a time                                       *)
(*   ConcSpec  two workers whose requests interleave at the database       *)
(*             statements (several server processes on one items.db)       *)
(*   FairSpec  Spec, with every started request running to completion      *)
(***************************************************************************)
EXTENDS Integers, FiniteSets, TLC

\* Ids of the items table range over 1..MaxId (1..ConcMaxId in the
\* interleaved specification); an insert that would need a larger id is made
\* to fail as a store fault.
MaxId == 3

ConcMaxId == 2

Workers == {"w1", "w2"}

(***************************************************************************)
(* Field values as they arrive in a request.  A field is absent (None), an *)
(* integer, or text.  Text in an integer field is non-numeric text.        *)
(***************************************************************************)
None == [t |-> "none"]
IntV(n) == [t |-> "int", v |-> n]
StrV(s) == [t |-> "str", v |-> s]

AllNone == [name |-> None, description |-> None, price |-> None, quantity |-> None]

\* The valid payload of the spec's create scenario, and a second one that
\* differs from it in every field and sits on the zero boundary.
Widget == [name |-> StrV("Widget"), description |-> StrV("A widget"),
           price |-> IntV(10), quantity |-> IntV(5)]
Gadget == [name |-> StrV("Gadget"), description |-> StrV("A gadget"),
           price |-> IntV(0), quantity |-> IntV(0)]

\* Widget with every combination of defects: a text field absent, an integer
\* field absent, non-numeric or negative.
Payloads ==
    [name : {StrV("Widget"), None},
     description : {StrV("A widget"), None},
     price : {IntV(10), IntV(-1), None, StrV("abc")},
     quantity : {IntV(5), IntV(-1), None, StrV("abc")}] \cup {Gadget}

\* The payloads of the interleaved specification: the valid ones and a
\* negative one.
ConcPayloads == {Widget, Gadget, [Gadget EXCEPT !.quantity = IntV(-1)]}

\* How a request carries its payload.  "json": the content-type header is
\* application/json and the body a JSON object of the fields; "form": the
\* fields are form-encoded.  A third kind of request, "json_malformed", has
\* content-type application/json and a body that does not parse; it carries
\* no payload.
Encodings == {"json", "form"}

MkReq(k, i, e, f) == [kind |-> k, id |-> i, enc |-> e, f |-> f]

NoReq == MkReq("none", 0, "form", AllNone)

Requests ==
    {MkReq("create", 0, e, f) : e \in Encodings, f \in Payloads}
    \cup {MkReq("create", 0, "json_malformed", AllNone)}
    \cup {MkReq("update", i, e, f) : i \in 1..MaxId, e \in Encodings, f \in Payloads}
    \cup {MkReq("delete", i, "form", AllNone) : i \in 1..MaxId}
    \cup {MkReq("home", 0, "form", AllNone)}

\* The requests of the interleaved specification: the mutating ones,
\* form-encoded.
ConcRequests ==
    {MkReq("create", 0, "form", f) : f \in ConcPayloads}
    \cup {MkReq("update", i, "form", f) : i \in 1..ConcMaxId, f \in ConcPayloads}
    \cup {MkReq("delete", i, "form", AllNone) : i \in 1..ConcMaxId}

(***************************************************************************)
(* Responses.  items holds the returned item (create, update) or the whole *)
(* listing (home).                                                         *)
(***************************************************************************)
Resp(s, d, it) == [status |-> s, detail |-> d, items |-> it]

NoResp == Resp(0, "", {})

\* Outcome of a decoding or validation step: ok with the decoded data, or the
\* HTTPException to raise.
ZeroData == [name |-> "", description |-> "", price |-> 0, quantity |-> 0]
Ok(d) == [ok |-> TRUE, data |-> d, resp |-> NoResp]
Err(s, d) == [ok |-> FALSE, data |-> ZeroData, resp |-> Resp(s, d, {})]

(***************************************************************************)
(* Parameter binding and decoding.                                         *)
(***************************************************************************)

\* What the Form(None) parameters name, description, price, quantity
\* receive: the form fields of a form-encoded body, None for each otherwise.
FormFields(r) == IF r.enc = "form" THEN r.f ELSE AllNone

\* price: int = Form(None), quantity: int = Form(None): a supplied form
\* value must convert to int, else the framework answers 422 and the handler
\* body does not run.
BindOK(r) ==
    r.kind \in {"create", "update"} =>
        /\ FormFields(r).price.t \in {"none", "int"}
        /\ FormFields(r).quantity.t \in {"none", "int"}

\* item: Optional[ItemBase] = None, declared beside Form parameters.  With a
\* Form parameter among a route's body parameters the framework reads the
\* body with request.form() and looks each body parameter up in it by name.
\* A JSON body yields an empty form and a form body has no field "item", so
\* the parameter keeps its default None whatever the body's encoding (which
\* is why create_item reads request.json() itself and never uses item).
ItemParam(r) == None

\* ItemBase(name: str, description: str, price: int, quantity: int)
ItemBaseValid(f) ==
    /\ f.name.t = "str"
    /\ f.description.t = "str"
    /\ f.price.t = "int"
    /\ f.quantity.t = "int"

ItemBase(f) ==
    [name |-> f.name.v, description |-> f.description.v,
     price |-> f.price.v, quantity |-> f.quantity.v]

\* create_item, decoding: the JSON body when the content type is
\* application/json, the form parameters otherwise.
CreateData(r) ==
    IF r.enc \in {"json", "json_malformed"}
    THEN IF r.enc = "json_malformed"
         THEN Err(500, "Internal server error")
         ELSE IF ItemBaseValid(r.f)
              THEN Ok(ItemBase(r.f))
              ELSE Err(422, "Invalid JSON data format")
    ELSE IF ItemBaseValid(FormFields(r))
         THEN Ok(ItemBase(FormFields(r)))
         ELSE Err(422, "Invalid form data")

\* update_item, decoding: the item parameter if set, the form parameters
\* otherwise.
UpdateData(r) ==
    IF ItemParam(r) # None
    THEN Ok(ItemBase(ItemParam(r)))
    ELSE IF ItemBaseValid(FormFields(r))
         THEN Ok(ItemBase(FormFields(r)))
         ELSE Err(422, "Invalid data format")

NegativeCheck_QuantityFirst(data) ==
    IF data.quantity < 0 THEN Err(400, "Quantity cannot be negative")
    ELSE IF data.price < 0 THEN Err(400, "Price cannot be negative")
    ELSE Ok(data)

NegativeCheck_PriceOnly(data) ==
    IF data.price < 0 THEN Err(400, "Price cannot be negative")
    ELSE Ok(data)

\* if data.price < 0: ... / if data.quantity < 0: ...
NegativeCheck(data) ==
    IF data.price < 0 THEN Err(400, "Price cannot be negative")
    ELSE IF data.quantity < 0 THEN Err(400, "Quantity cannot be negative")
    ELSE Ok(data)

\* Decoding followed by the negative checks.
Validated(d) == IF d.ok THEN NegativeCheck(d.data) ELSE d

NotFound == Err(404, "Item not found")

UpdateCheck_ValidateFirst(found, r) ==
    IF ~Validated(UpdateData(r)).ok THEN Validated(UpdateData(r))
    ELSE IF found = {} THEN NotFound
    ELSE Validated(UpdateData(r))

\* update_item between the query and the attribute assignments: if not
\* db_item: raise 404; then decoding and the negative checks.
UpdateCheck(found, r) ==
    IF found = {} THEN NotFound ELSE Validated(UpdateData(r))

(***************************************************************************)
(* The items table and the statements the handlers run against it.  The    *)
(* table is a function from the ids in use to the rows' other columns.     *)
(***************************************************************************)
Item(i, d) ==
    [id |-> i, name |-> d.name, description |-> d.description,
     price |-> d.price, quantity |-> d.quantity]

NoItem == Item(0, ZeroData)

EmptyStore == [i \in {} |-> ZeroData]

SetMax(S) == CHOOSE m \in S : \A x \in S : x <= m

\* db.query(models.Item).all()
QueryAll(s) == {Item(i, s[i]) : i \in DOMAIN s}

\* db.query(models.Item).filter(models.Item.id == item_id).first():
\* the row, or nothing.
QueryFirst(s, i) == IF i \in DOMAIN s THEN {Item(i, s[i])} ELSE {}

NextId_Count(s) == Cardinality(DOMAIN s) + 1

\* id = Column(Integer, primary_key=True): the table's integer primary key,
\* which the store assigns on insert as one more than the largest id in use.
NextId(s) == IF DOMAIN s = {} THEN 1 ELSE SetMax(DOMAIN s) + 1

\* The INSERT that db.commit() flushes for the item added by db.add().
Insert(s, d) ==
    [i \in DOMAIN s \cup {NextId(s)} |-> IF i = NextId(s) THEN d ELSE s[i]]

FieldNames == {"name", "description", "price", "quantity"}

\* The attributes whose assigned value differs from the loaded one.
Dirty(snap, d) == {c \in FieldNames : d[c] # snap[c]}

FlushUpdate_Upsert(s, snap, d) ==
    [stale |-> FALSE,
     store |-> [i \in DOMAIN s \cup {snap.id} |-> IF i = snap.id THEN d ELSE s[i]]]

FlushUpdate_NameOnly(s, snap, d) ==
    IF snap.id \notin DOMAIN s
    THEN [stale |-> TRUE, store |-> s]
    ELSE [stale |-> FALSE,
          store |-> [s EXCEPT ![snap.id] = [s[snap.id] EXCEPT !.name = d.name]]]

\* The UPDATE that db.commit() flushes for db_item after the four attribute
\* assignments: it sets the changed columns of the row with db_item's id.
\* With nothing changed no statement is sent; a statement that matches no row
\* raises StaleDataError.
FlushUpdate(s, snap, d) ==
    IF Dirty(snap, d) = {}
    THEN [stale |-> FALSE, store |-> s]
    ELSE IF snap.id \notin DOMAIN s
         THEN [stale |-> TRUE, store |-> s]
         ELSE [stale |-> FALSE,
               store |-> [s EXCEPT ![snap.id] =
                             [c \in FieldNames |->
                                 IF c \in Dirty(snap, d) THEN d[c] ELSE s[snap.id][c]]]]

FlushDelete_All(s, i) == EmptyStore

\* The DELETE that db.commit() flushes after db.delete(item).
FlushDelete(s, i) == [j \in DOMAIN s \ {i} |-> s[j]]

(***************************************************************************)
(* State.                                                                  *)
(***************************************************************************)
VARIABLES
    store,      \* the committed rows of the items table
    pc,         \* each worker's position: idle, handler, commit, refresh,
                \* respond (the handler has answered), closed (session closed)
    req,        \* the request a worker is serving
    resp,       \* the response the handler produced
    db_item,    \* the handler's db_item / item: the loaded or inserted row
    sessions,   \* sessions a worker holds open (SessionLocal() not yet closed)
    pre,        \* the table as it was when the request arrived
    faulted,    \* a store fault was raised while serving the request
    deleted     \* ids deleted with success and not assigned again since

vars == <<store, pc, req, resp, db_item, sessions, pre, faulted, deleted>>

Init ==
    /\ store = EmptyStore
    /\ pc = [p \in Workers |-> "idle"]
    /\ req = [p \in Workers |-> NoReq]
    /\ resp = [p \in Workers |-> NoResp]
    /\ db_item = [p \in Workers |-> NoItem]
    /\ sessions = [p \in Workers |-> 0]
    /\ pre = [p \in Workers |-> EmptyStore]
    /\ faulted = [p \in Workers |-> FALSE]
    /\ deleted = {}

\* The handler raises (or returns) r: the request has its response.
Respond(p, r) ==
    /\ resp' = [resp EXCEPT ![p] = r]
    /\ pc' = [pc EXCEPT ![p] = "respond"]

\* except SQLAlchemyError: db.rollback(); raise HTTPException(503, ...).
\* The rollback discards what the session has not committed.
DatabaseError(p) == Respond(p, Resp(503, "Database error occurred", {}))

\* A store fault raised by the statement at hand.
StoreFault(p) ==
    /\ faulted' = [faulted EXCEPT ![p] = TRUE]
    /\ DatabaseError(p)

(***************************************************************************)
(* A request arrives: get_db opens the session (db = SessionLocal();       *)
(* yield db) and the declared parameters are bound.                        *)
(***************************************************************************)
Begin(p, r) ==
    /\ pc[p] = "idle"
    /\ req' = [req EXCEPT ![p] = r]
    /\ sessions' = [sessions EXCEPT ![p] = @ + 1]
    /\ IF BindOK(r)
       THEN /\ pc' = [pc EXCEPT ![p] = "handler"]
            /\ resp' = resp
       ELSE Respond(p, Resp(422, "Unprocessable Entity", {}))
    /\ UNCHANGED <<store, db_item, faulted, deleted>>

\* One request at a time; pre records the table the request found.
BeginSeq(p) ==
    /\ \A q \in Workers : pc[q] = "idle"
    /\ \E r \in Requests : Begin(p, r)
    /\ pre' = [pre EXCEPT ![p] = store]

\* Requests of different workers overlap.
BeginConc(p) ==
    /\ \E r \in ConcRequests : Begin(p, r)
    /\ pre' = pre

(***************************************************************************)
(* create_item                                                             *)
(***************************************************************************)
\* Decoding and validation, then db_item = models.Item(...); db.add(db_item).
CreateValidate(p) ==
    /\ pc[p] = "handler"
    /\ req[p].kind = "create"
    /\ LET v == Validated(CreateData(req[p]))
       IN IF v.ok
          THEN /\ pc' = [pc EXCEPT ![p] = "commit"]
               /\ resp' = resp
          ELSE Respond(p, v.resp)
    /\ UNCHANGED <<store, req, db_item, sessions, pre, faulted, deleted>>

\* db.commit()
CreateCommit(p, cap) ==
    /\ pc[p] = "commit"
    /\ req[p].kind = "create"
    /\ \E fault \in BOOLEAN :
        /\ NextId(store) > cap => fault
        /\ IF fault
           THEN /\ StoreFault(p)
                /\ UNCHANGED <<store, db_item, deleted>>
           ELSE /\ store' = Insert(store, CreateData(req[p]).data)
                /\ db_item' = [db_item EXCEPT ![p] =
                                  Item(NextId(store), CreateData(req[p]).data)]
                /\ deleted' = deleted \ {NextId(store)}
                /\ pc' = [pc EXCEPT ![p] = "refresh"]
                /\ UNCHANGED <<resp, faulted>>
    /\ UNCHANGED <<req, sessions, pre>>

\* db.refresh(db_item); return {"status": "success", "item": db_item}.
\* A row that is gone raises InvalidRequestError, a SQLAlchemyError.
Refresh(p) ==
    /\ pc[p] = "refresh"
    /\ \E fault \in BOOLEAN :
        IF fault
        THEN StoreFault(p)
        ELSE /\ faulted' = faulted
             /\ IF QueryFirst(store, db_item[p].id) = {}
                THEN DatabaseError(p)
                ELSE Respond(p, Resp(200, "success", QueryFirst(store, db_item[p].id)))
    /\ UNCHANGED <<store, req, db_item, sessions, pre, deleted>>

(***************************************************************************)
(* update_item                                                             *)
(***************************************************************************)
\* The query and the 404, decoding and validation, then the four attribute
\* assignments on db_item.
UpdateQuery(p) ==
    /\ pc[p] = "handler"
    /\ req[p].kind = "update"
    /\ \E fault \in BOOLEAN :
        IF fault
        THEN /\ StoreFault(p)
             /\ db_item' = db_item
        ELSE /\ faulted' = faulted
             /\ LET found == QueryFirst(store, req[p].id)
                    v == UpdateCheck(found, req[p])
                IN IF ~v.ok
                   THEN /\ Respond(p, v.resp)
                        /\ db_item' = db_item
                   ELSE /\ db_item' = [db_item EXCEPT ![p] = CHOOSE it \in found : TRUE]
                        /\ pc' = [pc EXCEPT ![p] = "commit"]
                        /\ resp' = resp
    /\ UNCHANGED <<store, req, sessions, pre, deleted>>

\* db.commit()
UpdateCommit(p) ==
    /\ pc[p] = "commit"
    /\ req[p].kind = "update"
    /\ \E fault \in BOOLEAN :
        IF fault
        THEN /\ StoreFault(p)
             /\ store' = store
        ELSE LET fl == FlushUpdate(store, db_item[p], UpdateData(req[p]).data)
             IN /\ faulted' = faulted
                /\ IF fl.stale
                   THEN /\ DatabaseError(p)
                        /\ store' = store
                   ELSE /\ store' = fl.store
                        /\ pc' = [pc EXCEPT ![p] = "refresh"]
                        /\ resp' = resp
    /\ UNCHANGED <<req, db_item, sessions, pre, deleted>>

(***************************************************************************)
(* delete_item                                                             *)
(***************************************************************************)
\* The query and the 404, then db.delete(item).
DeleteQuery(p) ==
    /\ pc[p] = "handler"
    /\ req[p].kind = "delete"
    /\ \E fault \in BOOLEAN :
        IF fault
        THEN /\ StoreFault(p)
             /\ db_item' = db_item
        ELSE /\ faulted' = faulted
             /\ LET found == QueryFirst(store, req[p].id)
                IN IF found = {}
                   THEN /\ Respond(p, NotFound.resp)
                        /\ db_item' = db_item
                   ELSE /\ db_item' = [db_item EXCEPT ![p] = CHOOSE it \in found : TRUE]
                        /\ pc' = [pc EXCEPT ![p] = "commit"]
                        /\ resp' = resp
    /\ UNCHANGED <<store, req, sessions, pre, deleted>>

\* db.commit(); return JSONResponse(200, ...).  A DELETE that matches no row
\* is only warned about.
DeleteCommit(p) ==
    /\ pc[p] = "commit"
    /\ req[p].kind = "delete"
    /\ \E fault \in BOOLEAN :
        IF fault
        THEN /\ StoreFault(p)
             /\ UNCHANGED <<store, deleted>>
        ELSE /\ faulted' = faulted
             /\ store' = FlushDelete(store, db_item[p].id)
             /\ deleted' = deleted \cup {db_item[p].id}
             /\ Respond(p, Resp(200, "Item deleted successfully", {}))
    /\ UNCHANGED <<req, db_item, sessions, pre>>

(***************************************************************************)
(* home                                                                    *)
(***************************************************************************)
HomeQuery(p) ==
    /\ pc[p] = "handler"
    /\ req[p].kind = "home"
    /\ \E fault \in BOOLEAN :
        IF fault
        THEN /\ faulted' = [faulted EXCEPT ![p] = TRUE]
             /\ Respond(p, Resp(503, "Database service unavailable", {}))
        ELSE /\ faulted' = faulted
             /\ Respond(p, Resp(200, "index.html", QueryAll(store)))
    /\ UNCHANGED <<store, req, db_item, sessions, pre, deleted>>

(***************************************************************************)
(* get_db, after the yield: finally: db.close().                           *)
(***************************************************************************)
GetDbExit_NoFinally(p) ==
    /\ pc[p] = "respond"
    /\ sessions' = [sessions EXCEPT ![p] = IF resp[p].status = 200 THEN @ - 1 ELSE @]
    /\ pc' = [pc EXCEPT ![p] = "closed"]
    /\ UNCHANGED <<store, req, resp, db_item, pre, faulted, deleted>>

GetDbExit(p) ==
    /\ pc[p] = "respond"
    /\ sessions' = [sessions EXCEPT ![p] = @ - 1]
    /\ pc' = [pc EXCEPT ![p] = "closed"]
    /\ UNCHANGED <<store, req, resp, db_item, pre, faulted, deleted>>

\* The response is sent and the request's objects are dropped.
Done(p) ==
    /\ pc[p] = "closed"
    /\ pc' = [pc EXCEPT ![p] = "idle"]
    /\ req' = [req EXCEPT ![p] = NoReq]
    /\ resp' = [resp EXCEPT ![p] = NoResp]
    /\ db_item' = [db_item EXCEPT ![p] = NoItem]
    /\ pre' = [pre EXCEPT ![p] = EmptyStore]
    /\ faulted' = [faulted EXCEPT ![p] = FALSE]
    /\ UNCHANGED <<store, sessions, deleted>>

(***************************************************************************)
(* Specifications.                                                         *)
(***************************************************************************)
Handle(p, cap) ==
    \/ CreateValidate(p)
    \/ CreateCommit(p, cap)
    \/ UpdateQuery(p)
    \/ UpdateCommit(p)
    \/ Refresh(p)
    \/ DeleteQuery(p)
    \/ DeleteCommit(p)
    \/ HomeQuery(p)
    \/ GetDbExit(p)
    \/ Done(p)

Next == \E p \in Workers : BeginSeq(p) \/ Handle(p, MaxId)

Spec == Init /\ [][Next]_vars

ConcRun(p) ==
    \/ CreateValidate(p)
    \/ CreateCommit(p, ConcMaxId)
    \/ UpdateQuery(p)
    \/ UpdateCommit(p)
    \/ Refresh(p)
    \/ DeleteQuery(p)
    \/ DeleteCommit(p)
    \/ GetDbExit(p)
    \/ Done(p)

ConcNext == \E p \in Workers : BeginConc(p) \/ ConcRun(p)

ConcSpec == Init /\ [][ConcNext]_vars

\* A started handler runs to its response and the framework then resumes
\* get_db; no request has to arrive.
FairSpec == Spec /\ \A p \in Workers : WF_vars(Handle(p, MaxId))

(***************************************************************************)
(* Properties.  A request is answered once its handler has produced the    *)
(* response; in Spec the table then is the table the request leaves.       *)
(***************************************************************************)
Answered(p) == pc[p] \in {"respond", "closed"}

\* All four fields present and of the right type.
PayloadWellTyped(f) ==
    /\ f.name.t = "str"
    /\ f.description.t = "str"
    /\ f.price.t = "int"
    /\ f.quantity.t = "int"

PayloadValid(f) == PayloadWellTyped(f) /\ f.price.v >= 0 /\ f.quantity.v >= 0

\* The row a valid payload describes.
Plain(f) ==
    [name |-> f.name.v, description |-> f.description.v,
     price |-> f.price.v, quantity |-> f.quantity.v]

Columns(it) ==
    [name |-> it.name, description |-> it.description,
     price |-> it.price, quantity |-> it.quantity]

\* Every row of pre other than i is in the table unchanged.
OthersUnchanged(p, i) ==
    \A j \in DOMAIN pre[p] \ {i} : j \in DOMAIN store /\ store[j] = pre[p][j]

----------------------------------------------------------------------------
----------------------------------------------------------------------------
\* C2 (Spec): a create request whose payload is well-typed with price < 0 or
\* quantity < 0 never reaches the commit, leaves the table as it found it,
\* and is answered 400 with "Price cannot be negative" when price < 0 and
\* "Quantity cannot be negative" otherwise.
C2_NegativeCreateRejected ==
    \A p \in Workers :
        (/\ req[p].kind = "create"
         /\ PayloadWellTyped(req[p].f)
         /\ (req[p].f.price.v < 0 \/ req[p].f.quantity.v < 0))
        => /\ pc[p] \in {"handler", "respond", "closed"}
           /\ store = pre[p]
           /\ Answered(p) =>
                /\ resp[p].status = 400
                /\ resp[p].detail = IF req[p].f.price.v < 0
                                    THEN "Price cannot be negative"
                                    ELSE "Quantity cannot be negative"
                /\ resp[p].items = {}

\* A create with both price and quantity negative has been answered, with
\* rows already in the table.
C2_Witness ==
    \E p \in Workers :
        /\ Answered(p)
        /\ req[p].kind = "create"
        /\ PayloadWellTyped(req[p].f)
        /\ req[p].f.price.v < 0
        /\ req[p].f.quantity.v < 0
        /\ resp[p].status = 400
        /\ store # EmptyStore

----------------------------------------------------------------------------
\* C3 (Spec): a create request with a valid payload, absent a store fault,
\* is answered with success and one item that carries the payload's four
\* values and an id >= 1 no row had; the table is the old one plus that row,
\* every old row unchanged, and reading the table (by id, or the listing)
\* returns exactly the answered item.
C3_CreateThenRead ==
    \A p \in Workers :
        (/\ Answered(p)
         /\ req[p].kind = "create"
         /\ PayloadValid(req[p].f)
         /\ ~faulted[p])
        => /\ resp[p].status = 200
           /\ Cardinality(resp[p].items) = 1
           /\ \A it \in resp[p].items :
                /\ it.id >= 1
                /\ Columns(it) = Plain(req[p].f)
                /\ it.id \notin DOMAIN pre[p]
                /\ DOMAIN store = DOMAIN pre[p] \cup {it.id}
                /\ OthersUnchanged(p, it.id)
                /\ QueryFirst(store, it.id) = {it}
                /\ it \in QueryAll(store)
                /\ \A other \in QueryAll(store) : other.id = it.id => other = it

\* A create has succeeded on a table whose largest id is not its row count
\* (a row was deleted before), so the new id had to avoid a row in use.
C3_Witness ==
    \E p \in Workers :
        /\ Answered(p)
        /\ req[p].kind = "create"
        /\ resp[p].status = 200
        /\ pre[p] # EmptyStore
        /\ SetMax(DOMAIN pre[p]) > Cardinality(DOMAIN pre[p])

----------------------------------------------------------------------------
\* A form body's price and quantity, where supplied, convert to int.
FormIntsConvert(r) ==
    r.enc = "form" => /\ r.f.price.t \in {"none", "int"}
                      /\ r.f.quantity.t \in {"none", "int"}

\* C4 as stated: an update whose target id is not in the table is answered
\* not-found and leaves the table unchanged, whatever its payload.
C4_Original ==
    \A p \in Workers :
        (/\ Answered(p)
         /\ req[p].kind = "update"
         /\ req[p].id \notin DOMAIN pre[p])
        => resp[p].status = 404 /\ store = pre[p]

\* C4 (Spec), amended: an update whose target id is not in the table leaves
\* the table unchanged; absent a store fault it is answered not-found for
\* every payload that reaches the handler (negative values and missing
\* fields included), and 422 only when a form field price or quantity does
\* not convert to int, which parameter binding rejects before the handler
\* runs; a store fault in the existence query is answered 503.
C4_UpdateAbsentId ==
    \A p \in Workers :
        (/\ req[p].kind = "update"
         /\ req[p].id \notin DOMAIN pre[p])
        => /\ store = pre[p]
           /\ pc[p] \in {"handler", "respond", "closed"}
           /\ Answered(p) =>
                resp[p].status = IF ~FormIntsConvert(req[p]) THEN 422
                                 ELSE IF faulted[p] THEN 503
                                 ELSE 404

\* An update with a negative price and a missing name, aimed at an id that
\* is not there while other rows are, has been answered not-found.
C4_Witness ==
    \E p \in Workers :
        /\ Answered(p)
        /\ req[p].kind = "update"
        /\ req[p].id \notin DOMAIN pre[p]
        /\ pre[p] # EmptyStore
        /\ req[p].f.price = IntV(-1)
        /\ req[p].f.name = None
        /\ resp[p].status = 404

----------------------------------------------------------------------------
\* C5 as stated (Spec): an update on an existing id with a valid payload,
\* absent a store fault, is answered with success and the updated item, sets
\* the row's four columns to the payload's values, keeps its id, and leaves
\* the other rows and the set of ids unchanged.
C5_UpdateOverwrites ==
    \A p \in Workers :
        (/\ Answered(p)
         /\ req[p].kind = "update"
         /\ req[p].id \in DOMAIN pre[p]
         /\ PayloadValid(req[p].f)
         /\ ~faulted[p])
        => /\ resp[p].status = 200
           /\ DOMAIN store = DOMAIN pre[p]
           /\ store[req[p].id] = Plain(req[p].f)
           /\ resp[p].items = {Item(req[p].id, Plain(req[p].f))}
           /\ OthersUnchanged(p, req[p].id)

----------------------------------------------------------------------------
\* C6 as stated: a delete on an existing id succeeds and removes exactly
\* that row; a delete on an id not in the table is answered not-found and
\* changes nothing; and once an id is deleted, until a create assigns it
\* again, every update or delete on it is answered not-found and no listing
\* shows it.
C6_Original ==
    /\ \A p \in Workers :
        (Answered(p) /\ req[p].kind = "delete")
        => IF req[p].id \in DOMAIN pre[p]
           THEN /\ resp[p].status = 200
                /\ DOMAIN store = DOMAIN pre[p] \ {req[p].id}
                /\ OthersUnchanged(p, req[p].id)
           ELSE resp[p].status = 404 /\ store = pre[p]
    /\ \A p \in Workers :
        (/\ Answered(p)
         /\ req[p].kind \in {"update", "delete"}
         /\ req[p].id \in deleted
         /\ req[p].id \notin DOMAIN pre[p])
        => resp[p].status = 404
    /\ \A p \in Workers :
        (Answered(p) /\ req[p].kind = "home")
        => \A it \in resp[p].items : it.id \notin deleted

\* C6 (Spec), amended: absent a store fault, a delete on an existing id
\* succeeds and removes exactly that row, and a delete on an id not in the
\* table is answered not-found; a delete that meets a store fault is
\* answered 503; in both of the latter cases the table is unchanged.  A
\* deleted id stays out of the table until a create assigns it again, so
\* until then, absent a store fault, a delete on it is answered not-found, so
\* is an update on it whose parameters bind, and no listing shows it.
C6_DeleteThenAbsent ==
    /\ \A p \in Workers :
        (Answered(p) /\ req[p].kind = "delete")
        => IF faulted[p]
           THEN resp[p].status = 503 /\ store = pre[p]
           ELSE IF req[p].id \in DOMAIN pre[p]
                THEN /\ resp[p].status = 200
                     /\ DOMAIN store = DOMAIN pre[p] \ {req[p].id}
                     /\ OthersUnchanged(p, req[p].id)
                     /\ req[p].id \in deleted
                ELSE resp[p].status = 404 /\ store = pre[p]
    /\ deleted \cap DOMAIN store = {}
    /\ \A p \in Workers :
        (/\ Answered(p)
         /\ req[p].kind \in {"update", "delete"}
         /\ req[p].id \in deleted
         /\ req[p].id \notin DOMAIN pre[p]
         /\ ~faulted[p]
         /\ FormIntsConvert(req[p]))
        => resp[p].status = 404
    /\ \A p \in Workers :
        (Answered(p) /\ req[p].kind = "home")
        => \A it \in resp[p].items : it.id \notin deleted

\* The second of two deletes of the same id, with no create between them,
\* has been answered not-found while other rows are in the table.
C6_Witness ==
    \E p \in Workers :
        /\ Answered(p)
        /\ req[p].kind = "delete"
        /\ req[p].id \in deleted
        /\ resp[p].status = 404
        /\ store # EmptyStore

----------------------------------------------------------------------------
\* What a successful mutating request has committed.
Committed(p) ==
    CASE req[p].kind = "create" -> resp[p].items \subseteq QueryAll(store)
                                   /\ resp[p].items # {}
      [] req[p].kind = "update" -> resp[p].items \subseteq QueryAll(store)
                                   /\ resp[p].items # {}
      [] OTHER -> req[p].id \notin DOMAIN store

\* C7 as stated (Spec): a mutating request that meets a store fault at any
\* step is answered service-unavailable; a request answered
\* service-unavailable leaves the table exactly as it found it; a request
\* answered with success has its changes committed.
C7_AtomicOnFault ==
    \A p \in Workers :
        (Answered(p) /\ req[p].kind \in {"create", "update", "delete"})
        => /\ faulted[p] => resp[p].status = 503
           /\ resp[p].status = 503 => store = pre[p]
           /\ resp[p].status = 200 => Committed(p)

----------------------------------------------------------------------------
\* C8 (FairSpec): a request in flight holds exactly one open session and a
\* worker without one holds none; once the request is over its session is
\* closed; and every session opened is eventually closed, whatever the
\* outcome of the request.
C8_SessionsReleased ==
    /\ [](\A p \in Workers :
            sessions[p] = IF pc[p] \in {"idle", "closed"} THEN 0 ELSE 1)
    /\ \A p \in Workers : (sessions[p] > 0) ~> (sessions[p] = 0)

\* A request that ended in an unexpected error (500) is over and its
\* session is closed.
C8_Witness ==
    \E p \in Workers :
        /\ pc[p] = "closed"
        /\ resp[p].status = 500
        /\ sessions[p] = 0

----------------------------------------------------------------------------
OtherEncoding(e) == IF e = "json" THEN "form" ELSE "json"

\* The answer's status and the table a create or update request r leaves
\* when it runs alone on table s without a store fault.
FaultFreeOutcome(r, s) ==
    IF ~BindOK(r)
    THEN [status |-> 422, store |-> s]
    ELSE IF r.kind = "create"
         THEN LET v == Validated(CreateData(r))
              IN IF v.ok
                 THEN [status |-> 200, store |-> Insert(s, v.data)]
                 ELSE [status |-> v.resp.status, store |-> s]
         ELSE LET found == QueryFirst(s, r.id)
                  v == UpdateCheck(found, r)
              IN IF v.ok
                 THEN [status |-> 200,
                       store |-> FlushUpdate(s, CHOOSE it \in found : TRUE, v.data).store]
                 ELSE [status |-> v.resp.status, store |-> s]

\* C9 as stated (Spec): a create or update request answered without a store
\* fault has the status, and leaves the table, that the same request would
\* with its payload carried in the other encoding (JSON body for form
\* fields, form fields for JSON body).
C9_EncodingsAgree ==
    \A p \in Workers :
        (/\ Answered(p)
         /\ req[p].kind \in {"create", "update"}
         /\ req[p].enc \in Encodings
         /\ ~faulted[p])
        => LET twin == FaultFreeOutcome(
                           [req[p] EXCEPT !.enc = OtherEncoding(req[p].enc)], pre[p])
           IN resp[p].status = twin.status /\ store = twin.store

----------------------------------------------------------------------------
\* C10 (ConcSpec): no step of an update request adds or removes a row, so an
\* update never brings back a row a concurrent delete removed; an update is
\* answered with success only if its row is in the table at that moment,
\* and it answers with that row; and an id deleted with success is not in
\* the table unless a create has assigned it again since.
C10_UpdateVersusDelete ==
    /\ [](deleted \cap DOMAIN store = {})
    /\ [][\A p \in Workers :
            req[p].kind = "update" =>
                /\ pc'[p] # pc[p] => DOMAIN store' = DOMAIN store
                /\ (pc[p] = "refresh" /\ pc'[p] = "respond" /\ resp'[p].status = 200)
                   => /\ req[p].id \in DOMAIN store'
                      /\ resp'[p].items = QueryFirst(store', req[p].id)]_vars

\* An update read its row, a concurrent delete then removed it, and the
\* update was answered 503 without any store fault.
C10_Witness ==
    \E p \in Workers :
        /\ Answered(p)
        /\ req[p].kind = "update"
        /\ db_item[p].id = req[p].id
        /\ req[p].id \in deleted
        /\ req[p].id \notin DOMAIN store
        /\ ~faulted[p]
        /\ resp[p].status = 503

====
